---- MODULE Spec2Model ----
(***************************************************************************)
(* Port registry of protohost (internal/registry/registry.go).             *)
(*                                                                         *)
(* The ledger is the port_allocations table of a SQLite file shared by     *)
(* every protohost invocation on the host.  Each invocation is a process   *)
(* that runs one registry method; a method is a sequence of SQL            *)
(* statements, each statement is atomic, and statements of different       *)
(* processes interleave freely.                                            *)
(***************************************************************************)
EXTENDS Integers, FiniteSets, Sequences, TLC

\* ---------------------------------------------------------------- bounds
NumProcs == 2
NumProjects == 2
MaxTicks == 2
MaxCalls == 3
BlockLen == 10
SubSecond == 2

\* ------------------------------------------------------ program constants
WindowSize == 100
DaySecs == 86400
RangeSpan == 99
DefaultBasePort == 3000

Procs == 1..NumProcs
Projects == 1..NumProjects
AllPorts == DefaultBasePort..(DefaultBasePort + WindowSize)
ExtPorts == {DefaultBasePort + 1}
StatusArgs == {"running", "stopped"}
AnyStatus == {"running", "stopped", "expired", "paused"}

\* The two copies of downLocal in the source tree.
DownVariants == {"cmd/down.go", "unnamed/part_002"}

\* What a deploy passes to AllocatePort: the branch, and REPO_URL, TTL_DAYS
\* and BASE_WEB_PORT of the project's configuration file.
Configs == {[branch |-> "main", repo_url |-> "git@a", ttlDays |-> 1,
             basePort |-> DefaultBasePort],
            [branch |-> "dev", repo_url |-> "git@b", ttlDays |-> -1,
             basePort |-> DefaultBasePort + 1]}

VARIABLES
  ledger,    \* rows of port_allocations
  now,       \* wall clock, in 1/SubSecond seconds since the start
  ticks,     \* number of clock advances so far
  bound,     \* TCP ports held by processes outside protohost
  pc,        \* per process: position inside the running method
  args,      \* per process: arguments of the running method
  loc,       \* per process: local variables of the running method
  last,      \* outcome of the call that completed last
  calls,     \* number of calls started so far
  overlap,   \* per process in a call: did another call return meanwhile
  wf         \* per process: the command (deploy, down, cleanup) it is running

vars == <<ledger, now, ticks, bound, pc, args, loc, last, calls, overlap, wf>>

\* ------------------------------------------------------------------ time
\* time.Time.Format(time.RFC3339) in UTC: the instant cut to whole
\* seconds.  The stored strings have fixed width, so SQL's text
\* comparison orders them as the numbers do.
Format(t) == t \div SubSecond

\* time.Time.AddDate(0, 0, days) on a UTC time.
AddDate(t, days) == t + days * DaySecs * SubSecond

\* time.Now().UTC().AddDate(0, 0, ttlDays).Format(time.RFC3339)
ExpiresAt(t, ttlDays) == Format(AddDate(t, ttlDays))

\* ------------------------------------------------------- SQL statements
SelectProject_NoMatch(rows, projectName) == {}

\* SELECT web_port FROM port_allocations WHERE project_name = ?
SelectProject(rows, projectName) == {r \in rows : r.project_name = projectName}

\* SELECT web_port FROM port_allocations
SelectPorts(rows) == {r.web_port : r \in rows}

UniqueOK_Unchecked(rows, row) == TRUE

\* project_name TEXT NOT NULL UNIQUE, web_port INTEGER NOT NULL UNIQUE
UniqueOK(rows, row) ==
  \A r \in rows : r.project_name # row.project_name /\ r.web_port # row.web_port

UpdateExpiry_KeepsExpiry(rows, projectName, expiresAt) ==
  {IF r.project_name = projectName THEN [r EXCEPT !.status = "running"] ELSE r
     : r \in rows}

\* UPDATE port_allocations SET expires_at = ?, status = 'running'
\*   WHERE project_name = ?
UpdateExpiry(rows, projectName, expiresAt) ==
  {IF r.project_name = projectName
     THEN [r EXCEPT !.expires_at = expiresAt, !.status = "running"]
     ELSE r : r \in rows}

DeleteProject_KeepsRow(rows, projectName) ==
  {IF r.project_name = projectName THEN [r EXCEPT !.status = "stopped"] ELSE r
     : r \in rows}

\* DELETE FROM port_allocations WHERE project_name = ?
DeleteProject(rows, projectName) == {r \in rows : r.project_name # projectName}

SetStatus_Toggles(rows, projectName, status) ==
  {IF r.project_name = projectName
     THEN [r EXCEPT !.status = IF r.status = status THEN "running" ELSE status]
     ELSE r : r \in rows}

\* UPDATE port_allocations SET status = ? WHERE project_name = ?
SetStatus(rows, projectName, status) ==
  {IF r.project_name = projectName THEN [r EXCEPT !.status = status] ELSE r
     : r \in rows}

SelectExpired_IncludesDue(rows, nowStr) ==
  {r \in rows : r.expires_at <= nowStr /\ r.status # "expired"}

\* SELECT ... WHERE expires_at < ? AND status != 'expired'
SelectExpired(rows, nowStr) ==
  {r \in rows : r.expires_at < nowStr /\ r.status # "expired"}

UpdateExpired_Deletes(rows, nowStr) == {r \in rows : ~(r.expires_at < nowStr)}

\* UPDATE port_allocations SET status = 'expired' WHERE expires_at < ?
UpdateExpired(rows, nowStr) ==
  {IF r.expires_at < nowStr THEN [r EXCEPT !.status = "expired"] ELSE r
     : r \in rows}

\* ------------------------------------------------------------ allocator
\* net.Listen("tcp", ":port") succeeds iff nobody holds the port.
isPortAvailable(port, held) == port \notin held

Min(a, b) == IF a < b THEN a ELSE b

\* One more candidate port was looked at before the outcome f.
Tried(f, n) == [f EXCEPT !.tried = @ + n]

RECURSIVE ScanBlock(_, _, _, _, _)
\* The loop of findAvailablePort over the offsets offset..stop-1; tried
\* counts the candidate ports it looked at.
ScanBlock(usedPorts, held, basePort, offset, stop) ==
  IF offset >= stop THEN [port |-> 0, err |-> "exhausted", tried |-> 0]
  ELSE IF (basePort + offset) \in usedPorts
         THEN Tried(ScanBlock(usedPorts, held, basePort, offset + 1, stop), 1)
  ELSE IF isPortAvailable(basePort + offset, held)
         THEN [port |-> basePort + offset, err |-> "", tried |-> 1]
  ELSE Tried(ScanBlock(usedPorts, held, basePort, offset + 1, stop), 1)

ScanFrom_OneMore(usedPorts, held, basePort, offset) ==
  LET free == {o \in offset..WindowSize :
                 (basePort + o) \notin usedPorts /\ isPortAvailable(basePort + o, held)}
  IN IF free = {}
       THEN [port |-> 0, err |-> "exhausted", tried |-> WindowSize + 1 - offset]
       ELSE LET o == CHOOSE x \in free : \A y \in free : x <= y
            IN [port |-> basePort + o, err |-> "", tried |-> o + 1 - offset]

RECURSIVE ScanFrom(_, _, _, _)
\* The loop of findAvailablePort from the given offset to the end of the
\* window, run in stretches of BlockLen offsets so that its evaluation
\* stays shallow.
ScanFrom(usedPorts, held, basePort, offset) ==
  IF offset >= WindowSize THEN [port |-> 0, err |-> "exhausted", tried |-> 0]
  ELSE IF ScanBlock(usedPorts, held, basePort, offset,
                    Min(offset + BlockLen, WindowSize)).err = ""
         THEN ScanBlock(usedPorts, held, basePort, offset,
                        Min(offset + BlockLen, WindowSize))
  ELSE Tried(ScanFrom(usedPorts, held, basePort, offset + BlockLen),
             Min(offset + BlockLen, WindowSize) - offset)

findAvailablePort_NoProbe(rows, held, basePort) ==
  ScanFrom(SelectPorts(rows), {}, basePort, 0)

\* findAvailablePort: read the recorded ports, then probe the window in
\* ascending order.
findAvailablePort(rows, held, basePort) ==
  ScanFrom(SelectPorts(rows), held, basePort, 0)

\* ------------------------------------------------------- process records
NoArgs == [op |-> "", project |-> 0, ttlDays |-> 0, basePort |-> 0,
           branch |-> "", repo_url |-> "", status |-> ""]
NoLoc == [existingPort |-> 0, port |-> 0, nowStr |-> 0, expired |-> {}]
NoRes == [op |-> "", project |-> 0, ok |-> FALSE, port |-> 0,
          err |-> "", path |-> "", expired |-> {}, range |-> <<0, 0>>,
          was |-> "", isNew |-> FALSE, firstInstall |-> FALSE,
          removeVolumes |-> FALSE, status |-> "", dryRun |-> FALSE,
          list |-> <<>>, at |-> 0, tried |-> 0]

\* The locals of a command: its project, its flag (--remove-volumes or
\* --dry-run), what AllocatePort gave it, whether the project had a lease
\* when it began, the leases still to clean up, and how the teardown of the
\* current one went.
NoWf == [name |-> "", variant |-> "", project |-> 0, flag |-> FALSE,
         port |-> 0, isNew |-> FALSE, hadLease |-> FALSE, todo |-> {},
         cur |-> 0, downOK |-> FALSE, rmOK |-> FALSE]

\* The isNew result of AllocatePort that deploy.Local receives: true when
\* the call inserted the lease, false when it reused one.
IsNew(r) == r.path = "fresh"

\* Where a command goes on when the registry method it called returns r.
\* deploy.Local gives up when AllocatePort fails (local.go 62-65);
\* cleanupLocal stops after MarkExpired when nothing expired or on
\* --dry-run (info.go 236-258).
WfResume(w, r) ==
  IF w.name = "deploy" THEN (IF r.ok THEN "deploy_up" ELSE "idle")
  ELSE IF w.name = "cleanup"
         THEN (IF r.expired = {} \/ w.flag THEN "idle" ELSE "cleanup_teardown")
  ELSE "idle"

\* The locals of the command after the registry method returned r.
WfAfter(w, r) ==
  IF WfResume(w, r) = "idle" THEN NoWf
  ELSE IF w.name = "deploy" THEN [w EXCEPT !.port = r.port, !.isNew = IsNew(r)]
  ELSE [w EXCEPT !.todo = {x.project_name : x \in r.expired}]

\* A lease left by an earlier deploy of project 1 with the default
\* configuration.
EarlierRow == [project_name |-> 1, web_port |-> DefaultBasePort,
               branch |-> "main", created_at |-> 0,
               expires_at |-> DaySecs, status |-> "running",
               repo_url |-> "git@a"]

Init ==
  /\ ledger \in {{}, {EarlierRow}}
  /\ now = 0
  /\ ticks = 0
  /\ bound = {}
  /\ pc = [p \in Procs |-> "idle"]
  /\ args = [p \in Procs |-> NoArgs]
  /\ loc = [p \in Procs |-> NoLoc]
  /\ last = NoRes
  /\ calls = 0
  /\ overlap = [p \in Procs |-> FALSE]
  /\ wf = [p \in Procs |-> NoWf]

\* The state in which every port of both windows that the ledger does not
\* hold is bound by some other program.
InitFull ==
  /\ ledger \in {{}, {EarlierRow}}
  /\ bound = AllPorts \ SelectPorts(ledger)
  /\ now = 0
  /\ ticks = 0
  /\ pc = [p \in Procs |-> "idle"]
  /\ args = [p \in Procs |-> NoArgs]
  /\ loc = [p \in Procs |-> NoLoc]
  /\ last = NoRes
  /\ calls = 0
  /\ overlap = [p \in Procs |-> FALSE]
  /\ wf = [p \in Procs |-> NoWf]

\* The method returns to its caller, with its outcome on record: a process
\* that invoked the method directly is idle again, a command goes on.
Return(self, r) ==
  /\ pc' = [pc EXCEPT ![self] = WfResume(wf[self], r)]
  /\ wf' = [wf EXCEPT ![self] = WfAfter(wf[self], r)]
  /\ args' = [args EXCEPT ![self] = NoArgs]
  /\ loc' = [loc EXCEPT ![self] = NoLoc]
  /\ last' = r
  /\ overlap' = [q \in Procs |->
                   IF q = self THEN FALSE ELSE pc[q] # "idle"]

\* The method goes on to its next statement.
Goto(self, label, a, l) ==
  /\ pc' = [pc EXCEPT ![self] = label]
  /\ args' = [args EXCEPT ![self] = a]
  /\ loc' = [loc EXCEPT ![self] = l]
  /\ UNCHANGED <<last, overlap, wf>>

\* The status of the project's lease, "" when it has none.
StatusOf(rows, projectName) ==
  IF SelectProject(rows, projectName) = {} THEN ""
  ELSE (CHOOSE r \in SelectProject(rows, projectName) : TRUE).status

\* ---------------------------------------------------------- AllocatePort
\* registry.go 84-106: look the project up.
AllocCheck(self) ==
  /\ pc[self] = "idle"
  /\ calls < MaxCalls
  /\ calls' = calls + 1
  /\ \E p \in Projects, cfg \in Configs :
       LET a == [op |-> "AllocatePort", project |-> p, ttlDays |-> cfg.ttlDays,
                 basePort |-> cfg.basePort, branch |-> cfg.branch,
                 repo_url |-> cfg.repo_url, status |-> ""]
           found == SelectProject(ledger, p)
       IN IF found # {}
            THEN Goto(self, "alloc_update", a,
                      [NoLoc EXCEPT !.existingPort = (CHOOSE r \in found : TRUE).web_port])
            ELSE Goto(self, "alloc_find", a, NoLoc)
  /\ UNCHANGED <<ledger, now, ticks, bound>>

AllocUpdate_Rewrites(self) ==
  /\ pc[self] = "alloc_update"
  /\ ledger' = {IF r.project_name = args[self].project
                  THEN [r EXCEPT !.expires_at = ExpiresAt(now, args[self].ttlDays),
                                 !.status = "running",
                                 !.branch = args[self].branch,
                                 !.repo_url = args[self].repo_url]
                  ELSE r : r \in ledger}
  /\ Return(self, [NoRes EXCEPT !.op = "AllocatePort",
                                !.project = args[self].project,
                                !.ok = TRUE,
                                !.port = loc[self].existingPort,
                                !.path = "reuse",
                                !.was = StatusOf(ledger, args[self].project)])
  /\ UNCHANGED <<now, ticks, bound, calls>>

\* registry.go 91-102: the project has a port; refresh expiry and status.
\* The outcome notes the status the lease had before.
AllocUpdate(self) ==
  /\ pc[self] = "alloc_update"
  /\ ledger' = UpdateExpiry(ledger, args[self].project,
                            ExpiresAt(now, args[self].ttlDays))
  /\ Return(self, [NoRes EXCEPT !.op = "AllocatePort",
                                !.project = args[self].project,
                                !.ok = TRUE,
                                !.port = loc[self].existingPort,
                                !.path = "reuse",
                                !.was = StatusOf(ledger, args[self].project)])
  /\ UNCHANGED <<now, ticks, bound, calls>>

\* registry.go 108-112: pick a port.
AllocFind(self) ==
  /\ pc[self] = "alloc_find"
  /\ LET f == findAvailablePort(ledger, bound, args[self].basePort) IN
       IF f.err # ""
         THEN Return(self, [NoRes EXCEPT !.op = "AllocatePort",
                                         !.project = args[self].project,
                                         !.err = f.err,
                                         !.tried = f.tried,
                                         !.range = <<args[self].basePort,
                                                     args[self].basePort + RangeSpan>>,
                                         !.path = "fresh"])
         ELSE Goto(self, "alloc_insert", args[self],
                   [loc[self] EXCEPT !.port = f.port])
  /\ UNCHANGED <<ledger, now, ticks, bound, calls>>

\* registry.go 114-127: insert the new row.  created_at and expires_at come
\* from two readings of the clock, the second possibly later.
AllocInsert(self) ==
  /\ pc[self] = "alloc_insert"
  /\ \E t2 \in {now, now + 1} :
       /\ (t2 # now) => ticks < MaxTicks
       /\ now' = t2
       /\ ticks' = IF t2 = now THEN ticks ELSE ticks + 1
       /\ LET row == [project_name |-> args[self].project,
                      web_port |-> loc[self].port,
                      branch |-> args[self].branch,
                      created_at |-> Format(now),
                      expires_at |-> ExpiresAt(t2, args[self].ttlDays),
                      status |-> "running",
                      repo_url |-> args[self].repo_url]
          IN IF UniqueOK(ledger, row)
               THEN /\ ledger' = ledger \cup {row}
                    /\ Return(self, [NoRes EXCEPT !.op = "AllocatePort",
                                                  !.project = args[self].project,
                                                  !.ok = TRUE,
                                                  !.port = loc[self].port,
                                                  !.path = "fresh"])
               ELSE /\ ledger' = ledger
                    /\ Return(self, [NoRes EXCEPT !.op = "AllocatePort",
                                                  !.project = args[self].project,
                                                  !.port = loc[self].port,
                                                  !.err =
                                                    IF SelectProject(ledger, args[self].project) # {}
                                                      THEN "unique_project"
                                                      ELSE "unique_port",
                                                  !.path = "fresh"])
  /\ UNCHANGED <<bound, calls>>

AllocatePort(self) ==
  \/ AllocCheck(self)
  \/ AllocUpdate(self)
  \/ AllocFind(self)
  \/ AllocInsert(self)

\* ----------------------------------------------------------- ReleasePort
\* registry.go 176-182.  res.port records the port the deleted row held.
ReleasePort(self) ==
  /\ pc[self] = "idle"
  /\ calls < MaxCalls
  /\ calls' = calls + 1
  /\ \E p \in Projects :
       LET found == SelectProject(ledger, p) IN
       /\ ledger' = DeleteProject(ledger, p)
       /\ Return(self, [NoRes EXCEPT !.op = "ReleasePort",
                                     !.project = p,
                                     !.ok = TRUE,
                                     !.port = IF found = {} THEN 0
                                              ELSE (CHOOSE r \in found : TRUE).web_port])
  /\ UNCHANGED <<now, ticks, bound>>

\* ---------------------------------------------------------- UpdateStatus
\* registry.go 185-194: the status given is stored as it is.
UpdateStatusWith(self, statuses) ==
  /\ pc[self] = "idle"
  /\ calls < MaxCalls
  /\ calls' = calls + 1
  /\ \E p \in Projects, s \in statuses :
       /\ ledger' = SetStatus(ledger, p, s)
       /\ Return(self, [NoRes EXCEPT !.op = "UpdateStatus",
                                     !.project = p,
                                     !.ok = TRUE,
                                     !.status = s,
                                     !.was = StatusOf(ledger, p)])
  /\ UNCHANGED <<now, ticks, bound>>

\* UpdateStatus as the commands of this repository call it.
UpdateStatus(self) == UpdateStatusWith(self, StatusArgs)

\* UpdateStatus as any caller of the registry package may call it.
UpdateStatusAny(self) == UpdateStatusWith(self, AnyStatus)

\* ----------------------------------------------------------- MarkExpired
\* registry.go 233-263: read the clock once, select the overdue rows.
MarkExpiredQuery(self) ==
  /\ pc[self] = "idle"
  /\ calls < MaxCalls
  /\ calls' = calls + 1
  /\ LET nowStr == Format(now)
         expired == SelectExpired(ledger, nowStr)
     IN IF expired = {}
          THEN Return(self, [NoRes EXCEPT !.op = "MarkExpired", !.ok = TRUE,
                                          !.at = nowStr])
          ELSE Goto(self, "mark_update",
                    [NoArgs EXCEPT !.op = "MarkExpired"],
                    [NoLoc EXCEPT !.nowStr = nowStr, !.expired = expired])
  /\ UNCHANGED <<ledger, now, ticks, bound>>

\* registry.go 265-273: mark every overdue row, return what was selected.
MarkExpiredUpdate(self) ==
  /\ pc[self] = "mark_update"
  /\ ledger' = UpdateExpired(ledger, loc[self].nowStr)
  /\ Return(self, [NoRes EXCEPT !.op = "MarkExpired",
                                !.ok = TRUE,
                                !.expired = loc[self].expired,
                                !.at = loc[self].nowStr])
  /\ UNCHANGED <<now, ticks, bound, calls>>

MarkExpired(self) ==
  \/ MarkExpiredQuery(self)
  \/ MarkExpiredUpdate(self)

\* --------------------------------------------------------- GetAllocation
\* time.Parse(time.RFC3339, s): the instant of the stored second.
Parse(s) == s * SubSecond

ScanRow_Raw(r) == r

\* rows.Scan into a PortAllocation, the two timestamps parsed.
ScanRow(r) == [r EXCEPT !.created_at = Parse(r.created_at),
                        !.expires_at = Parse(r.expires_at)]

GetAllocation_Expires(self) ==
  /\ pc[self] = "idle"
  /\ calls < MaxCalls
  /\ calls' = calls + 1
  /\ \E p \in Projects :
       /\ ledger' = SetStatus(ledger, p, "expired")
       /\ Return(self, [NoRes EXCEPT !.op = "GetAllocation", !.project = p])
  /\ UNCHANGED <<now, ticks, bound>>

\* registry.go 277-301: one SELECT; sql.ErrNoRows becomes the error
\* "no allocation found for ...".
GetAllocation(self) ==
  /\ pc[self] = "idle"
  /\ calls < MaxCalls
  /\ calls' = calls + 1
  /\ \E p \in Projects :
       LET found == SelectProject(ledger, p) IN
       IF found = {}
         THEN Return(self, [NoRes EXCEPT !.op = "GetAllocation",
                                         !.project = p,
                                         !.err = "not_found"])
         ELSE Return(self, [NoRes EXCEPT !.op = "GetAllocation",
                                         !.project = p,
                                         !.ok = TRUE,
                                         !.list = <<ScanRow(CHOOSE r \in found : TRUE)>>])
  /\ UNCHANGED <<ledger, now, ticks, bound>>

\* ------------------------------------------------------- ListAllocations
Precedes_Ascending(a, b) == a.created_at <= b.created_at

\* ORDER BY created_at DESC: a may come before b.
Precedes(a, b) == a.created_at >= b.created_at

\* The orders in which the query may deliver the rows: every row once,
\* newest created_at first, rows of the same second in any order.
OrderByCreatedAtDesc(rows) ==
  {s \in [1..Cardinality(rows) -> rows] :
     /\ \A i \in DOMAIN s : \A j \in DOMAIN s : i # j => s[i] # s[j]
     /\ \A i \in DOMAIN s : \A j \in DOMAIN s : i < j => Precedes(s[i], s[j])}

\* registry.go 197-229.
ListAllocations(self) ==
  /\ pc[self] = "idle"
  /\ calls < MaxCalls
  /\ calls' = calls + 1
  /\ \E s \in OrderByCreatedAtDesc(ledger) :
       Return(self, [NoRes EXCEPT !.op = "ListAllocations",
                                  !.ok = TRUE,
                                  !.list = [i \in DOMAIN s |-> ScanRow(s[i])]])
  /\ UNCHANGED <<ledger, now, ticks, bound>>

\* ------------------------------------------------------------- commands
\* The command ends with outcome r.
Finish(self, r) ==
  /\ pc' = [pc EXCEPT ![self] = "idle"]
  /\ wf' = [wf EXCEPT ![self] = NoWf]
  /\ args' = [args EXCEPT ![self] = NoArgs]
  /\ loc' = [loc EXCEPT ![self] = NoLoc]
  /\ last' = r
  /\ overlap' = [q \in Procs |->
                   IF q = self THEN FALSE ELSE pc[q] # "idle"]

\* deploy.Local, local.go 40-65: the command calls AllocatePort, whose
\* first statement looks the project up.  (A failing pre-deploy hook ends
\* the command before it opens the registry.)
DeployAlloc(self) ==
  /\ pc[self] = "idle"
  /\ calls < MaxCalls
  /\ calls' = calls + 1
  /\ \E p \in Projects, cfg \in Configs :
       LET a == [op |-> "AllocatePort", project |-> p, ttlDays |-> cfg.ttlDays,
                 basePort |-> cfg.basePort, branch |-> cfg.branch,
                 repo_url |-> cfg.repo_url, status |-> ""]
           found == SelectProject(ledger, p)
       IN /\ pc' = [pc EXCEPT ![self] =
                      IF found # {} THEN "alloc_update" ELSE "alloc_find"]
          /\ args' = [args EXCEPT ![self] = a]
          /\ loc' = [loc EXCEPT ![self] =
                       IF found # {}
                         THEN [NoLoc EXCEPT !.existingPort =
                                 (CHOOSE r \in found : TRUE).web_port]
                         ELSE NoLoc]
          /\ wf' = [wf EXCEPT ![self] =
                      [NoWf EXCEPT !.name = "deploy", !.project = p,
                                   !.hadLease = found # {}]]
  /\ UNCHANGED <<ledger, now, ticks, bound, last, overlap>>

\* local.go 70-120: fetch the sources, build when asked to or when the
\* deployment is new, start the containers.  Any of these can fail, and
\* then the command returns the error.
DeployUp(self) ==
  /\ pc[self] = "deploy_up"
  /\ \E ok \in BOOLEAN :
       IF ok
         THEN /\ pc' = [pc EXCEPT ![self] = "deploy_finish"]
              /\ UNCHANGED <<args, loc, last, overlap, wf>>
         ELSE Finish(self, [NoRes EXCEPT !.op = "deploy",
                                         !.project = wf[self].project,
                                         !.port = wf[self].port,
                                         !.isNew = wf[self].isNew,
                                         !.err = "docker"])
  /\ UNCHANGED <<ledger, now, ticks, bound, calls>>

FirstInstallRuns_Always(w) == TRUE

\* local.go 132-137: the first-install hook runs if isNew.
FirstInstallRuns(w) == w.isNew

\* local.go 122-152: UpdateStatus(projectName, "running"), then the
\* post-start, first-install and post-deploy hooks.
DeployFinish(self) ==
  /\ pc[self] = "deploy_finish"
  /\ ledger' = SetStatus(ledger, wf[self].project, "running")
  /\ Finish(self, [NoRes EXCEPT !.op = "deploy",
                                !.project = wf[self].project,
                                !.ok = TRUE,
                                !.port = wf[self].port,
                                !.isNew = wf[self].isNew,
                                !.was = IF wf[self].hadLease THEN "leased" ELSE "",
                                !.firstInstall = FirstInstallRuns(wf[self])])
  /\ UNCHANGED <<now, ticks, bound, calls>>

\* downLocal up to docker.Down (cmd/down.go 58-70, part_002 150-186):
\* when the containers cannot be stopped the command returns the error.
DownStop(self) ==
  /\ pc[self] = "idle"
  /\ calls < MaxCalls
  /\ calls' = calls + 1
  /\ \E p \in Projects, v \in DownVariants, removeVolumes \in BOOLEAN, ok \in BOOLEAN :
       IF ok
         THEN /\ pc' = [pc EXCEPT ![self] = "down_registry"]
              /\ wf' = [wf EXCEPT ![self] =
                          [NoWf EXCEPT !.name = "down", !.variant = v,
                                       !.project = p, !.flag = removeVolumes]]
              /\ UNCHANGED <<args, loc, last, overlap>>
         ELSE Finish(self, [NoRes EXCEPT !.op = "down", !.project = p,
                                         !.removeVolumes = removeVolumes,
                                         !.err = "docker"])
  /\ UNCHANGED <<ledger, now, ticks, bound>>

\* downLocal of cmd/down.go, lines 72-85: the lease becomes stopped.
DownUpdate(self) ==
  /\ pc[self] = "down_registry"
  /\ wf[self].variant = "cmd/down.go"
  /\ ledger' = SetStatus(ledger, wf[self].project, "stopped")
  /\ Finish(self, [NoRes EXCEPT !.op = "down", !.project = wf[self].project,
                                !.ok = TRUE,
                                !.was = StatusOf(ledger, wf[self].project),
                                !.removeVolumes = wf[self].flag])
  /\ UNCHANGED <<now, ticks, bound, calls>>

\* downLocal of part_002, lines 188-209: the lease is released when the
\* volumes were removed, and becomes stopped otherwise.
DownUpdateOrRelease(self) ==
  /\ pc[self] = "down_registry"
  /\ wf[self].variant = "unnamed/part_002"
  /\ ledger' = IF wf[self].flag
                 THEN DeleteProject(ledger, wf[self].project)
                 ELSE SetStatus(ledger, wf[self].project, "stopped")
  /\ Finish(self, [NoRes EXCEPT !.op = "down", !.project = wf[self].project,
                                !.ok = TRUE,
                                !.was = StatusOf(ledger, wf[self].project),
                                !.removeVolumes = wf[self].flag])
  /\ UNCHANGED <<now, ticks, bound, calls>>

\* cleanupLocal, info.go 228-239: the command calls MarkExpired, whose
\* first statement selects the overdue rows.
CleanupMark(self) ==
  /\ pc[self] = "idle"
  /\ calls < MaxCalls
  /\ calls' = calls + 1
  /\ \E dryRun \in BOOLEAN :
       LET nowStr == Format(now)
           expired == SelectExpired(ledger, nowStr)
       IN IF expired = {}
            THEN Finish(self, [NoRes EXCEPT !.op = "cleanup", !.ok = TRUE,
                                            !.dryRun = dryRun])
            ELSE /\ pc' = [pc EXCEPT ![self] = "mark_update"]
                 /\ args' = [args EXCEPT ![self] = [NoArgs EXCEPT !.op = "MarkExpired"]]
                 /\ loc' = [loc EXCEPT ![self] =
                              [NoLoc EXCEPT !.nowStr = nowStr, !.expired = expired]]
                 /\ wf' = [wf EXCEPT ![self] =
                             [NoWf EXCEPT !.name = "cleanup", !.flag = dryRun]]
                 /\ UNCHANGED <<last, overlap>>
  /\ UNCHANGED <<ledger, now, ticks, bound>>

\* info.go 266-283: for the next swept lease, stop its containers and
\* remove its directory; a failure of either is only reported.
CleanupTeardown(self) ==
  /\ pc[self] = "cleanup_teardown"
  /\ \E p \in wf[self].todo, downOK \in BOOLEAN, rmOK \in BOOLEAN :
       wf' = [wf EXCEPT ![self] = [@ EXCEPT !.cur = p, !.downOK = downOK,
                                            !.rmOK = rmOK]]
  /\ pc' = [pc EXCEPT ![self] = "cleanup_release"]
  /\ UNCHANGED <<ledger, now, ticks, bound, args, loc, last, calls, overlap>>

\* info.go 285-296: ReleasePort for that lease, then the next one.
CleanupRelease(self) ==
  /\ pc[self] = "cleanup_release"
  /\ ledger' = DeleteProject(ledger, wf[self].cur)
  /\ LET rest == wf[self].todo \ {wf[self].cur}
         r == [NoRes EXCEPT !.op = "cleanup", !.project = wf[self].cur,
                            !.ok = wf[self].downOK /\ wf[self].rmOK,
                            !.port = IF SelectProject(ledger, wf[self].cur) = {} THEN 0
                                     ELSE (CHOOSE x \in SelectProject(ledger, wf[self].cur) : TRUE).web_port]
     IN IF rest = {}
          THEN Finish(self, r)
          ELSE /\ pc' = [pc EXCEPT ![self] = "cleanup_teardown"]
               /\ wf' = [wf EXCEPT ![self] = [@ EXCEPT !.todo = rest]]
               /\ last' = r
               /\ UNCHANGED <<args, loc, overlap>>
  /\ UNCHANGED <<now, ticks, bound, calls>>

\* ----------------------------------------------------------- environment
\* Time passes: a fraction of a second, or a day.
Tick ==
  /\ ticks < MaxTicks
  /\ \E d \in {1, DaySecs * SubSecond} : now' = now + d
  /\ ticks' = ticks + 1
  /\ UNCHANGED <<ledger, bound, pc, args, loc, last, calls, overlap, wf>>

\* A process outside protohost binds a port.
ExtBind ==
  /\ \E p \in ExtPorts \ bound : bound' = bound \cup {p}
  /\ UNCHANGED <<ledger, now, ticks, pc, args, loc, last, calls, overlap, wf>>

\* A process outside protohost closes its listener.
ExtClose ==
  /\ \E p \in ExtPorts \cap bound : bound' = bound \ {p}
  /\ UNCHANGED <<ledger, now, ticks, pc, args, loc, last, calls, overlap, wf>>

ProcStep(self) ==
  \/ AllocatePort(self)
  \/ ReleasePort(self)
  \/ UpdateStatus(self)
  \/ MarkExpired(self)

Next ==
  \/ \E self \in Procs : ProcStep(self)
  \/ Tick
  \/ ExtBind
  \/ ExtClose

Spec == Init /\ [][Next]_vars

\* Calls run one at a time: a process takes a step only while every other
\* process is idle.
NextSerial ==
  \/ \E self \in Procs :
       /\ \A q \in Procs \ {self} : pc[q] = "idle"
       /\ ProcStep(self)
  \/ Tick
  \/ ExtBind
  \/ ExtClose

SpecSerial == Init /\ [][NextSerial]_vars

\* The commands deploy, down and cleanup, run by the processes in any
\* interleaving of their steps.
CommandStep(self) ==
  \/ DeployAlloc(self)
  \/ AllocUpdate(self)
  \/ AllocFind(self)
  \/ AllocInsert(self)
  \/ DeployUp(self)
  \/ DeployFinish(self)
  \/ DownStop(self)
  \/ DownUpdate(self)
  \/ DownUpdateOrRelease(self)
  \/ CleanupMark(self)
  \/ MarkExpiredUpdate(self)
  \/ CleanupTeardown(self)
  \/ CleanupRelease(self)

NextCommands ==
  \/ \E self \in Procs : CommandStep(self)
  \/ Tick
  \/ ExtBind
  \/ ExtClose

SpecCommands == Init /\ [][NextCommands]_vars

\* The commands run one at a time.
NextCommandsSerial ==
  \/ \E self \in Procs :
       /\ \A q \in Procs \ {self} : pc[q] = "idle"
       /\ CommandStep(self)
  \/ Tick
  \/ ExtBind
  \/ ExtClose

SpecCommandsSerial == Init /\ [][NextCommandsSerial]_vars

\* Calls run one at a time, the two lookups among them.
NextReads ==
  \/ \E self \in Procs :
       /\ \A q \in Procs \ {self} : pc[q] = "idle"
       /\ \/ ProcStep(self)
          \/ GetAllocation(self)
          \/ ListAllocations(self)
  \/ Tick
  \/ ExtBind
  \/ ExtClose

SpecReads == Init /\ [][NextReads]_vars

\* Calls run one at a time, and UpdateStatus is given any status.
NextAnyStatus ==
  \/ \E self \in Procs :
       /\ \A q \in Procs \ {self} : pc[q] = "idle"
       /\ \/ AllocatePort(self)
          \/ ReleasePort(self)
          \/ UpdateStatusAny(self)
          \/ MarkExpired(self)
  \/ Tick
  \/ ExtBind
  \/ ExtClose

SpecAnyStatus == Init /\ [][NextAnyStatus]_vars

SpecFull == InitFull /\ [][Next]_vars

\* Processes call AllocatePort, one call at a time, while other programs
\* bind and close ports.
NextAlloc ==
  \/ \E self \in Procs :
       /\ \A q \in Procs \ {self} : pc[q] = "idle"
       /\ AllocatePort(self)
  \/ ExtBind
  \/ ExtClose

\* A call that has begun goes on: the process that runs it keeps taking
\* the steps of its method.
SpecAllocFair ==
  /\ InitFull
  /\ [][NextAlloc]_vars
  /\ \A self \in Procs :
       WF_vars(AllocUpdate(self) \/ AllocFind(self) \/ AllocInsert(self))

TypeOK ==
  /\ \A r \in ledger : r.project_name \in Projects /\ r.web_port \in AllPorts
  /\ pc \in [Procs -> {"idle", "alloc_update", "alloc_find", "alloc_insert", "mark_update",
                       "deploy_up", "deploy_finish", "down_registry",
                       "cleanup_teardown", "cleanup_release"}]
  /\ \A p \in Procs : wf[p].name \in {"", "deploy", "down", "cleanup"}

\* ======================================================== properties
\* Some call returned in this step, and it was a call of op.
Completed(op) ==
  /\ last'.op = op
  /\ \E self \in Procs :
       /\ pc'[self] = "idle"
       /\ pc[self] # "idle" \/ (calls' = calls + 1 /\ pc' = pc)

\* Process self returns from AllocatePort in this step.
AllocReturns(self) ==
  /\ args[self].op = "AllocatePort"
  /\ pc[self] # "idle"
  /\ pc'[self] = "idle"

Window(basePort) == basePort..(basePort + WindowSize - 1)

FreePorts(rows, held, basePort) ==
  {p \in Window(basePort) : p \notin SelectPorts(rows) /\ p \notin held}

IsLowestFree(p, rows, held, basePort) ==
  /\ p \in FreePorts(rows, held, basePort)
  /\ \A q \in FreePorts(rows, held, basePort) : p <= q

AllIdle == \A self \in Procs : pc[self] = "idle"

\* C1: in every reachable state, under every interleaving of AllocatePort,
\* ReleasePort, UpdateStatus and MarkExpired, no two leases share a port
\* and no two leases share a project name.
C1_Unique ==
  \A r1 \in ledger : \A r2 \in ledger :
    r1 # r2 => r1.web_port # r2.web_port /\ r1.project_name # r2.project_name

\* Two leases are in the ledger and a concurrent insert has just been
\* refused by a uniqueness constraint.
C1_Witness ==
  /\ Cardinality(ledger) >= 2
  /\ last.op = "AllocatePort"
  /\ last.err \in {"unique_project", "unique_port"}

\* C2: for a project with no lease, findAvailablePort picks the smallest
\* port of base_port..base_port+99 that is neither recorded in the ledger
\* nor bound by an external process.
C2_LowestFree ==
  [][\A self \in Procs :
       (pc[self] = "alloc_find" /\ pc'[self] # "alloc_find"
          /\ FreePorts(ledger, bound, args[self].basePort) # {})
       => /\ pc'[self] = "alloc_insert"
          /\ IsLowestFree(loc'[self].port, ledger, bound, args[self].basePort)]_vars

\* The allocator has passed over a recorded port and an externally bound
\* port and picked the third candidate.
C2_Witness ==
  \E self \in Procs :
    /\ pc[self] = "alloc_insert"
    /\ loc[self].port = args[self].basePort + 2
    /\ args[self].basePort \in SelectPorts(ledger)
    /\ args[self].basePort + 1 \in bound

\* C3: AllocatePort called twice in a row for the same project returns the
\* same port both times, and the second call adds no lease and reserves no
\* further port.
C3_IdempotentReuse ==
  [][\A self \in Procs :
       (AllocReturns(self) /\ last.op = "AllocatePort" /\ last.ok
          /\ last.project = args[self].project)
       => /\ last'.ok
          /\ last'.port = last.port
          /\ SelectPorts(ledger') = SelectPorts(ledger)
          /\ Cardinality(ledger') = Cardinality(ledger)]_vars

\* Exactly two calls were made: the one that created the lease of a
\* project (on branch dev) and a second AllocatePort that reused it.
C3_Witness ==
  /\ AllIdle
  /\ calls = 2
  /\ last.op = "AllocatePort" /\ last.ok /\ last.path = "reuse"
  /\ \E r \in ledger : /\ r.project_name = last.project
                       /\ r.branch = "dev"
                       /\ r.web_port = last.port

\* C4: a port recorded in the ledger for a lease, whatever its status, is
\* never returned by an AllocatePort for a different project while that
\* lease is in the ledger.
C4_ReservedUntilReleased ==
  [][\A self \in Procs :
       (AllocReturns(self) /\ last'.ok)
       => \A r \in ledger' :
            r.web_port = last'.port => r.project_name = last'.project]_vars

\* C5: two concurrent first deploys of one project behave as if run one
\* after the other: both succeed with the same port and the project has
\* exactly one lease.
C5_AtomicUpsert ==
  [][\A self \in Procs :
       (AllocReturns(self) /\ pc[self] \in {"alloc_find", "alloc_insert"}
          /\ overlap[self]
          /\ last.op = "AllocatePort" /\ last.path = "fresh"
          /\ last.project = args[self].project
          /\ last.err # "exhausted" /\ last'.err # "exhausted")
       => /\ last.ok
          /\ last'.ok
          /\ last'.port = last.port
          /\ Cardinality(SelectProject(ledger', args[self].project)) = 1]_vars

\* C6: a caller that loses the port-uniqueness check at insert retries and
\* ends with a lease on a different port instead of returning an error.
C6_RetryOnConflict ==
  [][\A self \in Procs :
       (pc[self] = "alloc_insert" /\ pc'[self] = "idle"
          /\ SelectProject(ledger, args[self].project) = {}
          /\ loc[self].port \in SelectPorts(ledger))
       => /\ last'.ok
          /\ \E r \in ledger' : /\ r.project_name = args[self].project
                                /\ r.web_port = last'.port
                                /\ r.web_port # loc[self].port]_vars

\* The clock reading a sweep that returns in this step works with.
SweepNow == IF \E self \in Procs : pc[self] = "mark_update"
              THEN (CHOOSE n \in {loc[self].nowStr : self \in {q \in Procs : pc[q] = "mark_update"}} : TRUE)
              ELSE Format(now)

\* C7: run without interleaving, MarkExpired at time now returns exactly
\* the leases with expires_at < now and status != expired; afterwards each
\* of them has status expired and every lease with expires_at >= now is
\* unchanged.
C7_SweepExact ==
  [][Completed("MarkExpired")
       => /\ last'.expired =
               {r \in ledger : r.expires_at < SweepNow /\ r.status # "expired"}
          /\ \A r \in last'.expired :
               [r EXCEPT !.status = "expired"] \in ledger'
          /\ \A r \in ledger : r.expires_at >= SweepNow => r \in ledger'
          /\ Cardinality(ledger') = Cardinality(ledger)]_vars

\* A sweep has returned a lease, which is now expired, next to a lease that
\* was not due and is still running.
C7_Witness ==
  /\ AllIdle
  /\ last.op = "MarkExpired"
  /\ last.expired # {}
  /\ \A r \in last.expired : [r EXCEPT !.status = "expired"] \in ledger
  /\ \E r \in ledger : r.expires_at >= Format(now) /\ r.status = "running"

\* C8: under every interleaving with AllocatePort, each lease a sweep
\* returns has status expired in the ledger when the sweep returns, and no
\* lease whose expiry a redeploy refreshed during the sweep is returned.
C8_SweepAtomic ==
  [][\A self \in Procs :
       (pc[self] = "mark_update" /\ pc'[self] = "idle")
       => \A r \in last'.expired : \A x \in ledger' :
            x.project_name = r.project_name
            => x.status = "expired" /\ x.expires_at = r.expires_at]_vars

\* C9: an AllocatePort that reads the clock at T leaves the lease with
\* expires_at = T + ttl, on creation and on reuse alike; the previous
\* expires_at plays no part.
C9_SlidingTTL ==
  [][\A self \in Procs :
       (AllocReturns(self) /\ last'.ok)
       => \A r \in ledger' :
            r.project_name = args[self].project
            => r.expires_at = Format(now') + args[self].ttlDays * DaySecs]_vars

\* A lease was reused at a later second than the one it was created in,
\* with the one-day TTL it was created with, and its expiry has moved.
C9_Witness ==
  /\ last.op = "AllocatePort" /\ last.ok /\ last.path = "reuse"
  /\ \E r \in ledger : /\ r.project_name = last.project
                       /\ r.created_at < Format(now)
                       /\ r.expires_at = Format(now) + DaySecs
                       /\ r.expires_at # r.created_at + DaySecs

\* C10: when ReleasePort(p) returns, the port p held is no longer
\* recorded; the next allocation, for another project without a lease,
\* picks that port if it is the lowest free port of its window, and
\* returns it.
C10_ReleaseFreesPort ==
  [][/\ Completed("ReleasePort")
          => \A r \in ledger :
               r.project_name = last'.project
               => r.web_port \notin SelectPorts(ledger')
     /\ \A self \in Procs :
          (pc[self] = "alloc_find" /\ pc'[self] # "alloc_find"
             /\ last.op = "ReleasePort" /\ last.port # 0
             /\ last.project # args[self].project
             /\ IsLowestFree(last.port, ledger, bound, args[self].basePort))
          => pc'[self] = "alloc_insert" /\ loc'[self].port = last.port
     /\ \A self \in Procs :
          (pc[self] = "alloc_insert" /\ pc'[self] = "idle"
             /\ last.op = "ReleasePort" /\ last.port = loc[self].port)
          => last'.ok /\ last'.port = loc[self].port]_vars

\* The call before was a ReleasePort that deleted a lease, and the
\* allocator has now picked the port of that lease for another project.
C10_Witness ==
  \E self \in Procs :
    /\ pc[self] = "alloc_insert"
    /\ last.op = "ReleasePort" /\ last.port # 0
    /\ last.project # args[self].project
    /\ loc[self].port = last.port
    /\ last.port \notin SelectPorts(ledger)

\* C11: when every port of base_port..base_port+99 is recorded in the
\* ledger or bound externally, AllocatePort for a project without a lease
\* fails with the exhaustion error that names the range base_port to
\* base_port+99, leaves the ledger unchanged, and the project has no lease
\* afterwards.
C11_Exhausted ==
  [][\A self \in Procs :
       (/\ pc[self] = "alloc_find"
        /\ pc'[self] # "alloc_find"
        /\ SelectProject(ledger, args[self].project) = {}
        /\ FreePorts(ledger, bound, args[self].basePort) = {})
       => /\ pc'[self] = "idle"
          /\ last'.op = "AllocatePort"
          /\ last'.project = args[self].project
          /\ ~last'.ok
          /\ last'.err = "exhausted"
          /\ last'.range = <<args[self].basePort, args[self].basePort + WindowSize - 1>>
          /\ ledger' = ledger
          /\ SelectProject(ledger', args[self].project) = {}]_vars

\* AllocatePort has just failed for want of a port, in a window of which
\* one port is held by a lease and the other ninety-nine are bound.
C11_Witness ==
  /\ last.op = "AllocatePort"
  /\ last.err = "exhausted"
  /\ ledger # {}
  /\ SelectProject(ledger, last.project) = {}
  /\ FreePorts(ledger, bound, last.range[1]) = {}
  /\ \E r \in ledger : r.web_port \in Window(last.range[1]) /\ r.web_port \notin bound

\* C12: a lease's status becomes expired only in the update of the expiry
\* sweep, and only for a lease whose expires_at lies before the instant
\* the sweep read; no other operation sets expired.
C12_OnlySweepExpires ==
  [][\A r \in ledger' :
       (/\ r.status = "expired"
        /\ \A o \in SelectProject(ledger, r.project_name) : o.status # "expired")
       => \E self \in Procs :
            /\ pc[self] = "mark_update"
            /\ pc'[self] # "mark_update"
            /\ r.expires_at < loc[self].nowStr
            /\ loc[self].nowStr <= Format(now)]_vars

\* C14: in every reachable state the status of every lease is one of
\* running, stopped, expired, whatever status UpdateStatus was given.
C14_StatusEnum ==
  \A r \in ledger : r.status \in {"running", "stopped", "expired"}

\* C15: in every reachable state every lease has expires_at >= created_at,
\* for every ttl_days the configuration file can supply.
C15_ExpiryNotBeforeCreation ==
  \A r \in ledger : r.expires_at >= r.created_at

\* C16: AllocatePort for a project whose lease is stopped or expired sets
\* the status to running, returns the port the lease has, and sets
\* expires_at to now plus the TTL; with ttl_days > 0, a sweep at the same
\* instant then does not select that lease.
C16_ReviveLease ==
  [][\A self \in Procs : \A r \in ledger :
       (/\ pc[self] = "alloc_update"
        /\ pc'[self] # "alloc_update"
        /\ r.project_name = args[self].project
        /\ r.status \in {"stopped", "expired"})
       => LET r2 == [r EXCEPT !.status = "running",
                              !.expires_at = Format(now') + args[self].ttlDays * DaySecs]
          IN /\ last'.op = "AllocatePort" /\ last'.ok
             /\ last'.port = r.web_port
             /\ SelectProject(ledger', r.project_name) = {r2}
             /\ args[self].ttlDays > 0 => r2 \notin SelectExpired(ledger', Format(now'))]_vars

\* A lease that a sweep had marked expired has been deployed again with the
\* one-day TTL: it is running on its port and no longer overdue.
C16_Witness ==
  /\ AllIdle
  /\ last.op = "AllocatePort" /\ last.ok /\ last.path = "reuse"
  /\ last.was = "expired"
  /\ \E r \in ledger : /\ r.project_name = last.project
                       /\ r.web_port = last.port
                       /\ r.status = "running"
                       /\ r.created_at + DaySecs < Format(now)
                       /\ r.expires_at = Format(now) + DaySecs

\* C17: a lease leaves the ledger, and its port the reserved set, only in a
\* step in which ReleasePort for its project returns; MarkExpired,
\* UpdateStatus and AllocatePort keep every lease and every reserved port.
C17_OnlyReleaseDeletes ==
  [][\A r \in ledger :
       (\/ SelectProject(ledger', r.project_name) = {}
        \/ r.web_port \notin SelectPorts(ledger'))
       => /\ Completed("ReleasePort")
          /\ last'.project = r.project_name]_vars

\* A lease that a sweep marked expired is still in the ledger with its port
\* after a later allocation for another project, which got another port.
C17_Witness ==
  /\ AllIdle
  /\ last.op = "AllocatePort" /\ last.ok /\ last.path = "fresh"
  /\ \E r \in ledger : /\ r.status = "expired"
                       /\ r.project_name # last.project
                       /\ r.web_port # last.port
                       /\ r.web_port \in SelectPorts(ledger)

\* C13: the only status changes a lease makes are running to stopped,
\* stopped to running, expired to running, running to expired and stopped
\* to expired; in particular an expired lease never becomes stopped, also
\* when the down command is run for it.
C13_Transitions ==
  [][\A r \in ledger : \A r2 \in SelectProject(ledger', r.project_name) :
       \/ r2.status = r.status
       \/ <<r.status, r2.status>> \in
            {<<"running", "stopped">>, <<"stopped", "running">>,
             <<"expired", "running">>, <<"running", "expired">>,
             <<"stopped", "expired">>}]_vars

C19_ReleaseAfterTeardown ==
  [][\A self \in Procs :
       (/\ pc[self] = "cleanup_release"
        /\ pc'[self] # "cleanup_release"
        /\ SelectProject(ledger, wf[self].cur) # {}
        /\ SelectProject(ledger', wf[self].cur) = {})
       => wf[self].downOK /\ wf[self].rmOK]_vars

\* C20: once the containers are stopped, down sets the lease to stopped
\* and keeps its port on a normal stop, and deletes the lease when the
\* volumes were removed.
C20_DownStopsOrReleases ==
  [][\A self \in Procs : \A r \in SelectProject(ledger, wf[self].project) :
       (pc[self] = "down_registry" /\ pc'[self] = "idle")
       => IF wf[self].flag
            THEN SelectProject(ledger', r.project_name) = {}
            ELSE SelectProject(ledger', r.project_name) =
                   {[r EXCEPT !.status = "stopped"]}]_vars

\* C21: a cleanup run with --dry-run makes no changes: no step of it
\* alters the ledger, neither a lease nor a lease's status.
C21_DryRunNoChange ==
  [][\A self \in Procs :
       (wf[self].name = "cleanup" /\ wf[self].flag /\ pc'[self] # pc[self])
       => ledger' = ledger]_vars

\* C22: UpdateStatus is idempotent: called again with the same project and
\* status it leaves the ledger as the first call left it; called for a
\* project without a lease it returns without error, creates no lease and
\* leaves the ledger unchanged.
C22_UpdateStatusIdempotent ==
  [][Completed("UpdateStatus")
       => /\ last'.ok
          /\ \A r \in ledger' : r.project_name = last'.project => r.status = last'.status
          /\ Cardinality(ledger') = Cardinality(ledger)
          /\ SelectProject(ledger, last'.project) = {} => ledger' = ledger
          /\ (/\ last.op = "UpdateStatus"
              /\ last.project = last'.project
              /\ last.status = last'.status)
             => ledger' = ledger]_vars

\* UpdateStatus(p, "stopped") has returned for a lease that an earlier
\* UpdateStatus had already stopped, next to a project without a lease.
C22_Witness ==
  /\ AllIdle
  /\ last.op = "UpdateStatus" /\ last.ok
  /\ last.status = "stopped" /\ last.was = "stopped"
  /\ \E r \in ledger : r.project_name = last.project /\ r.status = "stopped"
  /\ \E p \in Projects : SelectProject(ledger, p) = {}

\* C23: GetAllocation for a project without a lease returns the not-found
\* error and leaves the ledger alone; for a project with a lease it
\* returns that lease's port, status, created_at and expires_at as the
\* ledger holds them when it is called.
C23_GetAllocation ==
  [][Completed("GetAllocation")
       => /\ ledger' = ledger
          /\ IF \A r \in ledger : r.project_name # last'.project
               THEN ~last'.ok /\ last'.err = "not_found" /\ last'.list = <<>>
               ELSE /\ last'.ok /\ last'.err = ""
                    /\ DOMAIN last'.list = {1}
                    /\ \E r \in ledger :
                         /\ r.project_name = last'.project
                         /\ last'.list[1].project_name = r.project_name
                         /\ last'.list[1].web_port = r.web_port
                         /\ last'.list[1].status = r.status
                         /\ Format(last'.list[1].created_at) = r.created_at
                         /\ Format(last'.list[1].expires_at) = r.expires_at]_vars

\* GetAllocation has returned a lease that was stopped after its creation,
\* with the status and the two timestamps the ledger holds.
C23_Witness ==
  /\ AllIdle
  /\ last.op = "GetAllocation" /\ last.ok
  /\ \E r \in ledger : /\ r.project_name = last.project
                       /\ r.status = "stopped"
                       /\ last.list[1].status = "stopped"
                       /\ last.list[1].web_port = r.web_port
                       /\ last.list[1].expires_at = r.expires_at * SubSecond
                       /\ r.expires_at # 0

\* C24: ListAllocations returns every lease of the ledger exactly once,
\* newest created_at first; a redeploy leaves created_at as it is, and so
\* does not move the lease in the list.
C24_ListNewestFirst ==
  [][/\ Completed("ListAllocations")
        => /\ last'.ok
           /\ DOMAIN last'.list = 1..Cardinality(ledger)
           /\ \A r \in ledger :
                Cardinality({i \in DOMAIN last'.list :
                               /\ last'.list[i].project_name = r.project_name
                               /\ last'.list[i].web_port = r.web_port
                               /\ last'.list[i].status = r.status
                               /\ Format(last'.list[i].created_at) = r.created_at
                               /\ Format(last'.list[i].expires_at) = r.expires_at}) = 1
           /\ \A i \in DOMAIN last'.list : \A j \in DOMAIN last'.list :
                i < j => last'.list[i].created_at >= last'.list[j].created_at
     /\ \A self \in Procs :
          (pc[self] = "alloc_update" /\ pc'[self] # "alloc_update")
          => \A r \in ledger : \E r2 \in ledger' :
               /\ r2.project_name = r.project_name
               /\ r2.created_at = r.created_at]_vars

\* The list holds two leases created a day apart, the newer one first; the
\* older one has been redeployed since the newer one was created, as its
\* expiry shows, and is still second.
C24_Witness ==
  /\ AllIdle
  /\ last.op = "ListAllocations" /\ last.ok
  /\ DOMAIN last.list = {1, 2}
  /\ last.list[1].created_at >= last.list[2].created_at + DaySecs * SubSecond
  /\ last.list[2].expires_at >= last.list[1].created_at + DaySecs * SubSecond
  /\ last.list[2].status = "running"

\* C25: an insert that would repeat a recorded port or project name fails
\* with an error returned to the caller and leaves the ledger as it was:
\* nothing of the losing lease is stored and the winner's lease is as
\* before.
C25_ConflictLeavesLedger ==
  [][\A self \in Procs :
       (/\ pc[self] = "alloc_insert"
        /\ pc'[self] # "alloc_insert"
        /\ \E r \in ledger : \/ r.project_name = args[self].project
                              \/ r.web_port = loc[self].port)
       => /\ ledger' = ledger
          /\ pc'[self] = "idle"
          /\ last'.op = "AllocatePort"
          /\ last'.project = args[self].project
          /\ ~last'.ok
          /\ last'.err \in {"unique_project", "unique_port"}]_vars

\* An insert has lost the race for a port: the caller got the error, the
\* winner holds the port, and the loser's project has no lease.
C25_Witness ==
  /\ last.op = "AllocatePort" /\ ~last.ok
  /\ last.err = "unique_port"
  /\ \A r \in ledger : r.project_name # last.project
  /\ \E r \in ledger : r.web_port = last.port /\ r.status = "running"

\* C26: GetAllocation and ListAllocations have no side effects: the ledger
\* is the same after each call as before it.
C26_ReadsKeepLedger ==
  [][(Completed("GetAllocation") \/ Completed("ListAllocations"))
       => ledger' = ledger]_vars

\* ListAllocations has returned, as the last of the calls, a list with an
\* expired lease, and that lease is still in the ledger and still expired.
C26_Witness ==
  /\ AllIdle
  /\ last.op = "ListAllocations" /\ last.ok
  /\ calls = MaxCalls
  /\ \E i \in DOMAIN last.list : last.list[i].status = "expired"
  /\ \E r \in ledger : r.status = "expired"

\* C27: whenever AllocatePort(p) returns a port without error, the ledger
\* at that moment holds a running lease of p on that port and no other
\* project holds the port, whatever ReleasePort(p) and AllocatePort calls
\* of other processes ran between the steps of the call.
C27_ReturnedPortIsLeased ==
  [][\A self \in Procs :
       (AllocReturns(self) /\ last'.ok)
       => /\ \E r \in ledger' : /\ r.project_name = args[self].project
                                /\ r.web_port = last'.port
                                /\ r.status = "running"
          /\ \A r \in ledger' :
               r.web_port = last'.port => r.project_name = args[self].project]_vars

\* C28: cleanup releases a lease only if, when it releases it, the lease
\* still has status expired and its expires_at lies before now; a project
\* redeployed between the sweep and the release keeps its lease and port.
C28_ReleaseOnlyExpired ==
  [][\A self \in Procs : \A r \in SelectProject(ledger, wf[self].cur) :
       (/\ pc[self] = "cleanup_release"
        /\ pc'[self] # "cleanup_release"
        /\ SelectProject(ledger', r.project_name) = {})
       => /\ r.status = "expired"
          /\ r.expires_at < Format(now)]_vars

\* C29: overdue leases that are not redeployed get released by the cleanup
\* runs without --dry-run; in particular a lease that a dry-run cleanup
\* reported, or whose teardown stopped after the sweep, is removed by the
\* next such run: when a run without --dry-run ends, no lease marked
\* expired and still overdue is left.
C29_CleanupReleasesOverdue ==
  [][\A self \in Procs :
       (\/ /\ pc[self] = "idle" /\ pc'[self] = "idle"
           /\ calls' = calls + 1
           /\ last'.op = "cleanup" /\ ~last'.dryRun
        \/ pc[self] = "cleanup_release" /\ pc'[self] = "idle")
       => \A r \in ledger' :
            ~(r.status = "expired" /\ r.expires_at < Format(now))]_vars

\* C30: for a project that has a lease, AllocatePort takes the reuse path
\* and returns the recorded port without error, whatever base_port it is
\* given, however full the window is and whoever has the port bound.
C30_ReuseIgnoresWindow ==
  [][\A self \in Procs :
       /\ (/\ pc[self] = "idle"
           /\ pc'[self] \in {"alloc_update", "alloc_find"}
           /\ \E r \in ledger : r.project_name = args'[self].project)
          => /\ pc'[self] = "alloc_update"
             /\ \E r \in ledger : /\ r.project_name = args'[self].project
                                  /\ r.web_port = loc'[self].existingPort
       /\ (pc[self] = "alloc_update" /\ pc'[self] # "alloc_update")
          => /\ pc'[self] = "idle"
             /\ last'.op = "AllocatePort"
             /\ last'.ok /\ last'.err = ""
             /\ last'.port = loc[self].existingPort]_vars

\* A lease on port 3000 has just been reused by a call whose window began
\* at 3001 (the configuration with the negative TTL, as the expiry shows):
\* the port lies outside that window, and the window has no free port.
C30_Witness ==
  /\ last.op = "AllocatePort" /\ last.ok /\ last.path = "reuse"
  /\ last.port = DefaultBasePort
  /\ DefaultBasePort \notin Window(DefaultBasePort + 1)
  /\ FreePorts(ledger, bound, DefaultBasePort + 1) = {}
  /\ \E r \in ledger : /\ r.project_name = last.project
                       /\ r.web_port = last.port
                       /\ r.status = "running"
                       /\ r.expires_at = Format(now) - DaySecs

\* C31: a redeploy changes only expires_at and status of the project's
\* lease: its port, created_at, branch and repo_url stay, also when the
\* call passes another branch or repo_url, and every other lease is as
\* before.
C31_RedeployFrame ==
  [][\A self \in Procs :
       (pc[self] = "alloc_update" /\ pc'[self] # "alloc_update")
       => /\ Cardinality(ledger') = Cardinality(ledger)
          /\ \A r \in ledger :
               IF r.project_name = args[self].project
                 THEN \E r2 \in ledger' :
                        r2 = [r EXCEPT !.expires_at = r2.expires_at,
                                       !.status = r2.status]
                 ELSE r \in ledger']_vars

\* A lease created from branch main of git@a has been redeployed by a call
\* that passed branch dev of git@b, next to another lease; it still
\* carries main and git@a and its port.
C31_Witness ==
  /\ last.op = "AllocatePort" /\ last.ok /\ last.path = "reuse"
  /\ Cardinality(ledger) = 2
  /\ \E r \in ledger : /\ r.project_name = last.project
                       /\ r.web_port = last.port
                       /\ r.branch = "main" /\ r.repo_url = "git@a"
                       /\ r.expires_at = Format(now) - DaySecs

\* C32: UpdateStatus and MarkExpired change no field but status: the
\* leases are the same ones, each with its project_name, port, created_at
\* and expires_at, and UpdateStatus(p, s) leaves the status of every other
\* project as it is.
C32_StatusOnly ==
  [][(Completed("UpdateStatus") \/ Completed("MarkExpired"))
       => /\ Cardinality(ledger') = Cardinality(ledger)
          /\ \A r \in ledger : \E r2 \in ledger' :
               r2 = [r EXCEPT !.status = r2.status]
          /\ Completed("UpdateStatus")
               => \A r \in ledger :
                    r.project_name # last'.project => r \in ledger']_vars

\* UpdateStatus has stopped one of two running leases: the other one is
\* still running, and the stopped one has its port and its dates.
C32_Witness ==
  /\ AllIdle
  /\ last.op = "UpdateStatus" /\ last.ok
  /\ last.status = "stopped" /\ last.was = "running"
  /\ Cardinality(ledger) = 2
  /\ \E r \in ledger : r.project_name # last.project /\ r.status = "running"
  /\ \E r \in ledger : /\ r.project_name = last.project
                       /\ r.status = "stopped"
                       /\ r.web_port \in AllPorts
                       /\ r.expires_at # r.created_at

\* C33: ReleasePort(p) deletes the lease of p, if there is one, and leaves
\* every other lease as it is; called again, or for a project without a
\* lease, it returns success and leaves the ledger unchanged.
C33_ReleaseFrame ==
  [][Completed("ReleasePort")
       => /\ last'.ok
          /\ ledger' = {r \in ledger : r.project_name # last'.project}
          /\ (\A r \in ledger : r.project_name # last'.project) => ledger' = ledger
          /\ (last.op = "ReleasePort" /\ last.project = last'.project)
               => ledger' = ledger]_vars

\* ReleasePort has returned success for a project that had no lease, as
\* the last of the calls, and the lease of another project is still there.
C33_Witness ==
  /\ AllIdle
  /\ last.op = "ReleasePort" /\ last.ok
  /\ last.port = 0
  /\ calls = MaxCalls
  /\ \A r \in ledger : r.project_name # last.project
  /\ \E r \in ledger : r.status = "stopped"

\* C34: when a deploy fails after the port was allocated, because the
\* build or the start of the containers returns an error, the ledger does
\* not show the project as running.
C34_FailedDeployNotRunning ==
  [][\A self \in Procs :
       (pc[self] = "deploy_up" /\ pc'[self] = "idle")
       => \A r \in ledger' :
            r.project_name = wf[self].project => r.status # "running"]_vars

\* C35: a second MarkExpired right after a first one, with no other call
\* between them and no lease whose expiry lies between the two sweeps,
\* returns an empty list and changes nothing; a lease that is marked
\* expired is not returned by a sweep.
C35_SecondSweepEmpty ==
  [][Completed("MarkExpired")
       => /\ \A r \in last'.expired : r \in ledger /\ r.status # "expired"
          /\ (/\ last.op = "MarkExpired"
              /\ \A r \in ledger :
                   ~(last.at <= r.expires_at /\ r.expires_at < SweepNow))
             => /\ last'.expired = {}
                /\ ledger' = ledger]_vars

\* A sweep has returned nothing on a ledger that holds a lease which an
\* earlier sweep marked expired and which is overdue at this sweep too,
\* next to a running lease that is not due.
C35_Witness ==
  /\ AllIdle
  /\ last.op = "MarkExpired" /\ last.ok
  /\ last.expired = {}
  /\ \E r \in ledger : /\ r.status = "expired"
                       /\ r.expires_at < last.at
  /\ \E r \in ledger : r.status = "running" /\ r.expires_at >= last.at

\* C36: findAvailablePort ends after looking at no more than 100 candidate
\* ports, with a port of base_port..base_port+99 or with the exhaustion
\* error; AllocatePort makes one attempt, never going back to an earlier
\* step, and every call of it ends, with a port or with an error.
C36_Terminates ==
  /\ [][\A self \in Procs :
          /\ (pc[self] = "alloc_find" /\ pc'[self] # "alloc_find")
             => LET f == findAvailablePort(ledger, bound, args[self].basePort)
                IN /\ f.tried <= WindowSize
                   /\ \/ /\ f.err = ""
                         /\ f.port \in Window(args[self].basePort)
                         /\ pc'[self] = "alloc_insert"
                         /\ loc'[self].port = f.port
                      \/ /\ f.err = "exhausted"
                         /\ f.tried = WindowSize
                         /\ pc'[self] = "idle"
                         /\ last'.err = "exhausted" /\ ~last'.ok
          /\ (pc[self] = "alloc_insert" /\ pc'[self] # "alloc_insert")
             => /\ pc'[self] = "idle"
                /\ last'.op = "AllocatePort"
                /\ \/ last'.ok /\ last'.port \in Window(args[self].basePort)
                   \/ ~last'.ok /\ last'.err # ""
          /\ (pc[self] = "alloc_update" /\ pc'[self] # "alloc_update")
             => /\ pc'[self] = "idle"
                /\ last'.op = "AllocatePort" /\ last'.ok]_vars
  /\ \A self \in Procs :
       (pc[self] \in {"alloc_update", "alloc_find", "alloc_insert"})
         ~> (pc[self] = "idle")

\* AllocatePort has ended with the exhaustion error after findAvailablePort
\* looked at all 100 ports of the window, all calls being used up.
C36_Witness ==
  /\ AllIdle
  /\ calls = MaxCalls
  /\ last.op = "AllocatePort" /\ ~last.ok
  /\ last.err = "exhausted"
  /\ last.tried = WindowSize
  /\ last.range[2] - last.range[1] + 1 = WindowSize
====
